---- MODULE Spec2Model ----
(***************************************************************************)
(* The reactivity engine of packages/reactivity: the Link graph between    *)
(* dependencies (ref, computed) and subscribers (effect, computed), the    *)
(* linkPool free list, propagate, ReactiveEffect, ComputedRefImpl and the  *)
(* track/trigger of a reactive array.                                      *)
(*                                                                         *)
(* The engine is synchronous: one call from user code (a write, a read,    *)
(* effect(), stop()) runs to completion on the call stack.  Each such      *)
(* call is one action; the nested calls it makes (propagate -> notify ->   *)
(* run -> fn -> link ...) are evaluated by the recursive operators below,  *)
(* which thread the whole engine state as a record h.                      *)
(***************************************************************************)
EXTENDS Integers, Sequences, FiniteSets, TLC

\* ---- bounds of the model ------------------------------------------------
MaxLinks == 5
MaxVal == 2
MaxArr == 3
MaxProxies == 3

\* ---- the objects the user program creates --------------------------------
Refs == {"r1", "r2"}
Computeds == {"c1", "c2"}
Effects == {"e1", "e2"}
\* the property keys of the reactive array that the programs use
ArrKeys == {"length", "0", "1", "2"}
Idx == ("0" :> 0) @@ ("1" :> 1) @@ ("2" :> 2)
\* the property key of the reactive object that the programs use
ObjKeys == {"a"}
Deps == Refs \cup Computeds \cup ArrKeys \cup ObjKeys
Watchers == {"w"}
Runners == Effects \cup Watchers
Subs == Effects \cup Computeds \cup Watchers
NoObj == "undefined"
None == 0
Undef == -1
NaN == -2
LinkIds == 1..MaxLinks
Values == 0..(MaxVal - 1)

VARIABLES
  graph,      \* the properties of the plain objects that watch traverses: <<object, key>> -> value
  trav,       \* the last traverse call: [seen, reads, visits, halt]
  links,      \* the Link objects allocated so far: id -> [sub, dep, nextDep, nextSub, prevSub]
  nlinks,     \* number of Link objects allocated with an object literal
  linkPool,   \* head of the free list
  subs,       \* Dependency.subs
  subsTail,   \* Dependency.subsTail
  deps,       \* Sub.deps
  depsTail,   \* Sub.depsTail
  tracking,   \* Sub.tracking
  dirty,      \* Sub.dirty
  active,     \* ReactiveEffect.active
  value,      \* RefImpl._value / ComputedRefImpl._value
  activeSub,  \* the module-level activeSub of effect.ts
  fn,         \* ReactiveEffect.fn: the body of each effect created so far
  getter,     \* ComputedRefImpl.fn
  target,     \* the raw array behind the reactive proxy: its elements, in order
  depsMap,    \* targetMap.get(target): the keys that have a Dep, in insertion order
  slot,       \* the raw value of property "a" of the reactive object: a ref or a number
  wopt,       \* watch(): its source and options, and whether cb calls onCleanup; NoWatch before watch()
  wOldValue,  \* watch(): let oldValue
  cleanup,    \* watch(): let cleanup (TRUE: a function is registered)
  prevNew,    \* history: the newValue of the last call of cb, before it the value run() returned at setup
  outcome,    \* how the last call ended: "ok", "exc" (it threw), "hang" (it never returns)
  op,         \* the last call made by user code
  log,        \* what the last call did, in order
  fresh,      \* history: the computeds read since the last change of a ref they depend on
  reactiveMap,   \* reactive.ts: WeakMap target -> proxy
  reactiveSetKeys, \* reactive.ts: the Set reactiveSet, the proxies created by reactive()
  proxyTarget,   \* the [[ProxyTarget]] of each Proxy created so far, in creation order
  child,         \* the property "child" of each raw object
  targetMapKeys, \* dep.ts: the keys of targetMap, the objects that own a depsMap
  returned       \* what the last call of reactive(), or the last property read or write, evaluated to

vars == <<links, nlinks, linkPool, subs, subsTail, deps, depsTail, tracking,
          dirty, active, value, activeSub, fn, getter, target, depsMap, slot,
          wopt, wOldValue, cleanup, prevNew, outcome, op, log, fresh,
         reactiveMap, reactiveSetKeys, proxyTarget, child, targetMapKeys, returned,
         graph, trav>>

wrapVars == <<reactiveMap, reactiveSetKeys, proxyTarget, child, targetMapKeys, returned,
              graph, trav>>

NoLink == [sub |-> NoObj, dep |-> NoObj, nextDep |-> None, nextSub |-> None, prevSub |-> None]

\* ---- user code: bodies of effects and getters of computeds -------------
\* An effect body is a sequence of instructions:
\*   Rd(p)        p.value
\*   If(p, a, b)  p.value ? a.value : b.value   (a, b may be NoObj: nothing is read)
\*   Wr(p, v)     p.value = v
\*   Guard(v)     if (!flag) return
\*   StopIf(p)    if (p.value) runner.effect.stop()
Rd(p) == [k |-> "rd", p |-> p, a |-> NoObj, b |-> NoObj, v |-> 0]
If(p, a, b) == [k |-> "if", p |-> p, a |-> a, b |-> b, v |-> 0]
Wr(p, v) == [k |-> "wr", p |-> p, a |-> NoObj, b |-> NoObj, v |-> v]
\* if (!flag) return, where flag is a plain variable of the program that holds v
Guard(v) == [k |-> "guard", p |-> NoObj, a |-> NoObj, b |-> NoObj, v |-> v]
\* if (p.value) runner.effect.stop()
StopIf(p) == [k |-> "stopif", p |-> p, a |-> NoObj, b |-> NoObj, v |-> 0]
\* if (p.value) throw new Error()
ThrowIf(p) == [k |-> "throw", p |-> p, a |-> NoObj, b |-> NoObj, v |-> 0]
\* wopt before watch() is called
NoWatch == [source |-> NoObj, immediate |-> FALSE, once |-> FALSE, registers |-> FALSE]
\* the values a property slot holds: a ref, or a number
RefVal(r) == [kind |-> "ref", ref |-> r, val |-> Undef]
PlainVal(v) == [kind |-> "plain", ref |-> NoObj, val |-> v]
isRef(x) == x.kind = "ref"
\* if (x), x ? a : b
Truthy(v) == v # 0 /\ v # Undef /\ v # NaN

NoBody == <<[k |-> "none", p |-> NoObj, a |-> NoObj, b |-> NoObj, v |-> 0]>>

\* the effect bodies of the programs that use refs only
Bodies ==
  { <<Rd("r1")>>, <<Rd("r2")>>,
    <<Rd("r1"), Rd("r2")>>, <<Rd("r2"), Rd("r1")>>, <<Rd("r1"), Rd("r1")>>,
    <<If("r1", "r2", NoObj)>>, <<If("r2", "r1", NoObj)>>, <<>> }

\* the effect bodies of the programs whose bodies and getters throw
ThrowBodies ==
  { <<ThrowIf("r1"), Rd("r2")>>, <<Rd("r2"), ThrowIf("r1")>>, <<Rd("c1")>>, <<Rd("r2")>> }

\* the effect bodies of the programs that use a reactive array
ArrayBodies ==
  { <<Rd("length")>>, <<Rd("1")>>, <<Rd("length"), Rd("1")>>, <<Rd("0"), Rd("1")>>,
    <<Rd("2"), Rd("length")>>, <<If("0", "1", "length")>> }

\* the effect bodies of the programs that use a watch
WatchBodies == { <<Rd("r1")>>, <<Rd("r1"), Rd("r2")>>, <<If("r1", "r2", NoObj)>> }

\* the effect bodies of the programs that use computeds
ComputedBodies ==
  { <<Rd("c1")>>, <<Rd("c1"), Rd("c2")>>, <<Rd("r1"), Rd("c1")>>,
    <<If("r2", "c1", NoObj)>> }

\* A getter reads its producers in order and combines the values read:
\*   "sum"  the sum of the values;  "bool"  1 if the sum is non-zero, else 0
Getters1 == { [reads |-> <<"r1", "r2">>, f |-> "bool"] }
Getters2 == { [reads |-> <<"r1">>, f |-> "sum"], [reads |-> <<"c1">>, f |-> "sum"] }

RECURSIVE SumSeq(_)
SumSeq(s) == IF s = <<>> THEN 0 ELSE Head(s) + SumSeq(Tail(s))

Combine(f, vals) ==
  IF f \in {"sum", "throw"} THEN SumSeq(vals) ELSE IF SumSeq(vals) # 0 THEN 1 ELSE 0

\* A getter with f = "throw" throws after its first read when the value
\* read is not 0, and is a sum otherwise
ThrowGetter == [reads |-> <<"r1", "r2">>, f |-> "throw"]

\* ---- packages/shared -----------------------------------------------------
\* a comparison with !== instead of Object.is: NaN differs from itself
hasChangeStrict(newValue, oldValue) == newValue # oldValue \/ newValue = NaN

hasChange(newValue, oldValue) == newValue # oldValue

\* ---- the engine state as one record --------------------------------------
H ==
  [ links |-> links, nlinks |-> nlinks, linkPool |-> linkPool,
    subs |-> subs, subsTail |-> subsTail, deps |-> deps, depsTail |-> depsTail,
    tracking |-> tracking, dirty |-> dirty, active |-> active, value |-> value,
    activeSub |-> activeSub, fn |-> fn, target |-> target, depsMap |-> depsMap,
    slot |-> slot,
    wopt |-> wopt, oldValue |-> wOldValue, cleanup |-> cleanup,
    halt |-> "none", ret |-> Undef, changed |-> FALSE, log |-> <<>> ]

Emit(h, e) == [h EXCEPT !.log = Append(@, e)]
Throw(h) == [h EXCEPT !.halt = "exc"]
\* throw new Error() in the body or getter that is running
raise(h) == Emit(Throw(h), <<"throw", h.activeSub>>)

\* ---- system.ts -----------------------------------------------------------
\* linkPool = link.nextDep part of link(): take the head of the pool
poolPop(h, nextDep, dep, sub) ==
  LET newLink == h.linkPool IN
  Emit([h EXCEPT !.linkPool = h.links[newLink].nextDep,
                 !.links[newLink].nextDep = nextDep,
                 !.links[newLink].sub = sub,
                 !.links[newLink].dep = dep],
       <<"pop", newLink>>)

\* the object literal of link(): a fresh Link
allocLink(h, nextDep, dep, sub) ==
  LET newLink == h.nlinks + 1 IN
  Emit([h EXCEPT !.nlinks = newLink,
                 !.links[newLink] = [sub |-> sub, dep |-> dep, nextDep |-> nextDep,
                                     nextSub |-> None, prevSub |-> None]],
       <<"alloc", newLink>>)

\* append newLink to dep's subscriber list
appendSub(h, dep, newLink) ==
  IF h.subsTail[dep] # None
  THEN [h EXCEPT !.links[h.subsTail[dep]].nextSub = newLink,
                 !.links[newLink].prevSub = h.subsTail[dep],
                 !.subsTail[dep] = newLink]
  ELSE [h EXCEPT !.subs[dep] = newLink, !.subsTail[dep] = newLink]

\* append newLink to sub's dependency list
appendDep(h, sub, newLink) ==
  IF h.depsTail[sub] # None
  THEN [h EXCEPT !.links[h.depsTail[sub]].nextDep = newLink, !.depsTail[sub] = newLink]
  ELSE [h EXCEPT !.deps[sub] = newLink, !.depsTail[sub] = newLink]

\* link without the reuse of the next edge of the dependency list
linkNoReuse(h, dep, sub) ==
  LET currentDep == h.depsTail[sub]
      nextDep == IF currentDep = None THEN h.deps[sub] ELSE h.links[currentDep].nextDep
      h0 == Emit(h, <<"link", dep, sub>>)
  IN IF h.linkPool = None /\ h.nlinks = MaxLinks
     THEN [h0 EXCEPT !.halt = "bound"]
     ELSE LET newLink == IF h.linkPool # None THEN h.linkPool ELSE h.nlinks + 1
              h1 == IF h.linkPool # None THEN poolPop(h0, nextDep, dep, sub)
                                         ELSE allocLink(h0, nextDep, dep, sub)
          IN appendDep(appendSub(h1, dep, newLink), sub, newLink)

link(h, dep, sub) ==
  LET currentDep == h.depsTail[sub]
      nextDep == IF currentDep = None THEN h.deps[sub] ELSE h.links[currentDep].nextDep
      h0 == Emit(h, <<"link", dep, sub>>)
  IN IF nextDep # None /\ h.links[nextDep].dep = dep
     THEN [h0 EXCEPT !.depsTail[sub] = nextDep]
     ELSE IF h.linkPool = None /\ h.nlinks = MaxLinks
     THEN [h0 EXCEPT !.halt = "bound"]
     ELSE LET newLink == IF h.linkPool # None THEN h.linkPool ELSE h.nlinks + 1
              h1 == IF h.linkPool # None THEN poolPop(h0, nextDep, dep, sub)
                                         ELSE allocLink(h0, nextDep, dep, sub)
          IN appendDep(appendSub(h1, dep, newLink), sub, newLink)

\* startTrack that leaves depsTail at the end of the previous run's list
startTrackKeepTail(h, sub) == [h EXCEPT !.tracking[sub] = TRUE]

startTrack(h, sub) == [h EXCEPT !.depsTail[sub] = None, !.tracking[sub] = TRUE]

\* the two if/else of clearTracking that take link out of dep's subscriber list
unlinkSub(h, l) ==
  LET prevSub == h.links[l].prevSub
      nextSub == h.links[l].nextSub
      dep == h.links[l].dep
      h1 == IF prevSub # None
            THEN [h EXCEPT !.links[prevSub].nextSub = nextSub, !.links[l].nextSub = None]
            ELSE IF dep = NoObj THEN Throw(h)
            ELSE [h EXCEPT !.subs[dep] = nextSub]
  IN IF h1.halt # "none" THEN h1
     ELSE IF nextSub # None
     THEN [h1 EXCEPT !.links[nextSub].prevSub = prevSub, !.links[l].prevSub = None]
     ELSE IF dep = NoObj THEN Throw(h1)
     ELSE [h1 EXCEPT !.subsTail[dep] = prevSub]

\* poolPush without link.nextDep = linkPool: the released link becomes the
\* pool head but is not chained to the links already in the pool
poolPushNoChain(h, l) ==
  IF h.halt # "none" THEN h
  ELSE Emit([h EXCEPT !.links[l].dep = NoObj, !.links[l].sub = NoObj, !.linkPool = l],
            <<"push", l>>)

\* link.dep = link.sub = undefined; link.nextDep = linkPool; linkPool = link
poolPush(h, l) ==
  IF h.halt # "none" THEN h
  ELSE Emit([h EXCEPT !.links[l].dep = NoObj, !.links[l].sub = NoObj,
                      !.links[l].nextDep = h.linkPool, !.linkPool = l],
            <<"push", l>>)

\* the while loop of clearTracking, at link l
RECURSIVE clearTracking(_, _)
clearTracking(h, l) ==
  IF l = None \/ h.halt # "none" THEN h
  ELSE clearTracking(poolPush(unlinkSub(h, l), l), h.links[l].nextDep)

\* depsTail.nextDep = undefined, after clearTracking(depsTail.nextDep)
cutAfterTail(h, tail) ==
  IF h.halt # "none" THEN h ELSE [h EXCEPT !.links[tail].nextDep = None]

\* sub.deps = undefined, after clearTracking(sub.deps)
cutDeps(h, sub) ==
  IF h.halt # "none" THEN h ELSE [h EXCEPT !.deps[sub] = None]

endTrack(h, sub) ==
  LET h1 == [h EXCEPT !.tracking[sub] = FALSE, !.dirty[sub] = FALSE]
      tail == h.depsTail[sub]
  IN IF tail # None
     THEN IF h.links[tail].nextDep # None
          THEN cutAfterTail(clearTracking(h1, h.links[tail].nextDep), tail)
          ELSE h1
     ELSE IF h.deps[sub] # None
     THEN cutDeps(clearTracking(h1, h.deps[sub]), sub)
     ELSE h1

\* a finally block that leaves activeSub as the try block set it
restoreNothing(h, prevSub, halt) ==
  IF h.halt # "none" THEN h ELSE [h EXCEPT !.halt = halt]

\* setActiveSub(prevSub) of a finally block; halt is how the try block ended
restoreSub(h, prevSub, halt) ==
  IF h.halt # "none" THEN h ELSE [h EXCEPT !.activeSub = prevSub, !.halt = halt]

\* a finally block that only restores activeSub: endTrack is skipped
finallyNoEndTrack(h, sub, prevSub) ==
  IF h.halt \in {"hang", "bound"} THEN h
  ELSE restoreSub([h EXCEPT !.halt = "none"], prevSub, h.halt)

\* try { ... } finally { endTrack(sub); setActiveSub(prevSub) } of run() and update():
\* h is the state when the try block ended (normally or by throwing)
finallyTrack(h, sub, prevSub) ==
  IF h.halt \in {"hang", "bound"} THEN h
  ELSE restoreSub(endTrack([h EXCEPT !.halt = "none"], sub), prevSub, h.halt)

RECURSIVE readDep(_, _), update(_, _), evalGetter(_, _, _, _), evalNext(_, _, _, _),
          execBody(_, _, _), execBranch(_, _), run(_, _), propagateWalk(_, _, _, _, _),
          walkNext(_, _, _, _, _), notifyAll(_, _, _), processComputedUpdate(_, _),
          propagate(_, _), refSet(_, _, _)

\* ---- dep.ts: track -------------------------------------------------------
track(h, key) ==
  IF h.activeSub = NoObj THEN h
  ELSE LET h1 == IF \E i \in DOMAIN h.depsMap : h.depsMap[i] = key THEN h
                 ELSE [h EXCEPT !.depsMap = Append(@, key)]
       IN link(h1, key, h1.activeSub)

\* Reflect.get(target, key) on the array
arrayGet(t, key) ==
  IF key = "length" THEN Len(t)
  ELSE IF Idx[key] < Len(t) THEN t[Idx[key] + 1] ELSE Undef

\* return res
returnElement(h, key) == [h EXCEPT !.ret = arrayGet(h.target, key)]

\* ---- baseHandlers.ts: mutableHandlers.get --------------------------------
reactiveGet(h, key) == returnElement(track(h, key), key)

\* return this._value
returnValue(h, d) ==
  IF h.halt # "none" THEN h ELSE [h EXCEPT !.ret = h.value[d]]

\* if (activeSub) link(this, activeSub)
trackRef(h, dep) ==
  IF h.halt # "none" \/ h.activeSub = NoObj THEN h ELSE link(h, dep, h.activeSub)

\* ---- ref.ts: RefImpl get value -------------------------------------------
refGet(h, r) == returnValue(trackRef(h, r), r)

\* return this._value of a computed
returnRead(h, c) ==
  IF h.halt # "none" THEN h ELSE Emit(returnValue(h, c), <<"read", c>>)

\* ---- computed.ts: ComputedRefImpl get value ------------------------------
computedGet(h, c) ==
  returnRead(trackRef(IF h.dirty[c] THEN update(h, c) ELSE h, c), c)

\* if (isRef(res)) return res.value; return res
returnSlot(h) ==
  IF h.halt # "none" THEN h
  ELSE IF isRef(h.slot) THEN refGet(h, h.slot.ref)
  ELSE [h EXCEPT !.ret = h.slot.val]

\* ---- baseHandlers.ts: mutableHandlers.get on the reactive object ---------
objectGet(h, key) == returnSlot(track(h, key))

\* p.value, state.a, arr[p], arr.length in user code
readDep(h, p) ==
  IF h.halt # "none" THEN h
  ELSE IF p \in Refs THEN refGet(h, p)
  ELSE IF p \in Computeds THEN computedGet(h, p)
  ELSE IF p \in ObjKeys THEN objectGet(h, p)
  ELSE reactiveGet(h, p)

\* this.fn() of a computed: the getter reads its producers from position i on
evalGetter(h, c, i, acc) ==
  IF h.halt # "none" THEN h
  ELSE IF i > Len(getter[c].reads) THEN [h EXCEPT !.ret = Combine(getter[c].f, acc)]
  ELSE evalNext(readDep(h, getter[c].reads[i]), c, i, acc)

\* the rest of the getter after its read at position i
evalNext(h, c, i, acc) ==
  IF h.halt = "none" /\ getter[c].f = "throw" /\ i = 1 /\ Truthy(h.ret) THEN raise(h)
  ELSE evalGetter(h, c, i + 1, Append(acc, h.ret))

\* this._value = this.fn()
storeValue(h, c) ==
  IF h.halt # "none" THEN h ELSE [h EXCEPT !.value[c] = h.ret]

\* return hasChange(oldValue, this._value)
returnChanged(h, c, oldValue) ==
  IF h.halt # "none" THEN h
  ELSE Emit([h EXCEPT !.changed = hasChange(oldValue, h.value[c])],
            <<"update", c, oldValue, h.value[c]>>)

\* ComputedRefImpl.update
update(h, c) ==
  returnChanged(
    finallyTrack(
      storeValue(
        evalGetter(Emit(startTrack([h EXCEPT !.activeSub = c], c), <<"get", c>>), c, 1, <<>>),
        c),
      c, h.activeSub),
    c, h.value[c])

\* this.active = false
deactivate(h, e) ==
  IF h.halt # "none" THEN h ELSE [h EXCEPT !.active[e] = FALSE]

\* stop that only sets active = false: the edges stay
stopKeepsEdges(h, e) ==
  IF h.active[e] THEN deactivate(h, e) ELSE h

\* ReactiveEffect.stop
stop(h, e) ==
  IF h.active[e] THEN deactivate(endTrack(startTrack(h, e), e), e) ELSE h

\* if (p.value) runner.effect.stop(), in the body of the runner's own effect
stopSelf(h, e) ==
  IF h.halt # "none" \/ ~Truthy(h.ret) THEN h ELSE Emit(stop(h, e), <<"selfstop", e>>)

\* this.fn() of an effect: the body from instruction i on
execBody(h, e, i) ==
  IF h.halt # "none" \/ i > Len(h.fn[e]) THEN h
  ELSE IF h.fn[e][i].k = "wr"
  THEN execBody(refSet(h, h.fn[e][i].p, h.fn[e][i].v), e, i + 1)
  ELSE IF h.fn[e][i].k = "guard"
  THEN IF h.fn[e][i].v = 0 THEN h ELSE execBody(h, e, i + 1)
  ELSE IF h.fn[e][i].k = "stopif"
  THEN execBody(stopSelf(readDep(h, h.fn[e][i].p), e), e, i + 1)
  ELSE execBody(execBranch(readDep(h, h.fn[e][i].p), h.fn[e][i]), e, i + 1)

\* the branch of p.value ? a.value : b.value that the value read selects
execBranch(h, ins) ==
  LET t == IF Truthy(h.ret) THEN ins.a ELSE ins.b
  IN IF ins.k = "if" /\ h.halt = "none" /\ t # NoObj THEN readDep(h, t)
     ELSE IF ins.k = "throw" /\ h.halt = "none" /\ Truthy(h.ret) THEN raise(h)
     ELSE h

\* the point at which run returns or throws
endRun(h, e) ==
  IF h.halt \in {"hang", "bound"} THEN h ELSE Emit(h, <<"end", e>>)

\* ---- effect.ts: ReactiveEffect.run ---------------------------------------
run(h, e) ==
  IF ~h.active[e] THEN endRun(execBody(Emit(h, <<"run", e>>), e, 1), e)
  ELSE endRun(
         finallyTrack(
           execBody(Emit(startTrack([h EXCEPT !.activeSub = e], e), <<"run", e>>), e, 1),
           e, h.activeSub),
         e)

\* ---- watch.ts ----------------------------------------------------------
\* if (cleanup) { cleanup(); cleanup = null }
callCleanup(h, w) ==
  IF h.cleanup THEN Emit([h EXCEPT !.cleanup = FALSE], <<"cleanup", w>>) ELSE h

\* a once wrapper that does not stop the watch
onceNoStop(h, w) == h

\* the once wrapper of cb: stop() after _cb(...args)
onceStop(h, w) == IF h.wopt.once THEN stop(h, w) ELSE h

\* oldValue = newValue
setOldValue(h, newValue) ==
  IF h.halt # "none" THEN h ELSE [h EXCEPT !.oldValue = newValue]

\* cb(newValue, oldValue, onCleanup); oldValue = newValue.  h.ret is what
\* effect.run() returned; the user callback registers a cleanup if
\* wopt.registers
callCb(h, w) ==
  IF h.halt # "none" THEN h
  ELSE setOldValue(
         onceStop(Emit([h EXCEPT !.cleanup = IF h.wopt.registers THEN TRUE ELSE @],
                       <<"cb", w, h.ret, h.oldValue>>), w),
         h.ret)

\* job that calls the pending cleanup after cb instead of before the getter
jobCleanupLast(h, w) == callCleanup(callCb(run(h, w), w), w)

\* job
job(h, w) == callCb(run(callCleanup(h, w), w), w)

\* oldValue = effect.run()
seedOldValue(h, w) ==
  IF h.halt # "none" THEN h ELSE Emit([h EXCEPT !.oldValue = h.ret], <<"seed", w, h.ret>>)

\* watch(source, cb, options) with a ref as source
watch(h, w) ==
  IF h.wopt.immediate THEN job(h, w) ELSE seedOldValue(run(h, w), w)

\* ReactiveEffect.notify -> scheduler: run of an effect, job of a watch
notify(h, e) == IF e \in Watchers THEN job(h, e) ELSE run(h, e)

\* ---- system.ts: propagate --------------------------------------------------
\* the test of propagate without sub.tracking
shouldNotifyClean(h, sub) == ~h.dirty[sub]

\* the condition under which propagate marks and notifies link.sub
shouldNotify(h, sub) == ~h.tracking[sub] /\ ~h.dirty[sub]

\* queuedEffect.forEach(effect => effect.notify())
notifyAll(h, queued, i) ==
  IF h.halt # "none" \/ i > Len(queued) THEN h
  ELSE notifyAll(notify(h, queued[i]), queued, i + 1)

\* what the while loop of propagate can see of the state: everything but the log
loopState(h, l, queued) == <<l, queued, [h EXCEPT !.log = <<>>, !.ret = Undef, !.changed = FALSE]>>

\* the while loop of propagate(dep.subs), at link l.  seen holds the states in
\* which this loop was at its head before: being there again means the loop
\* never ends.
propagateWalk(h, l, queued, seen, dep) ==
  IF h.halt # "none" THEN h
  ELSE IF l = None THEN notifyAll(h, queued, 1)
  ELSE IF loopState(h, l, queued) \in seen THEN [h EXCEPT !.halt = "hang"]
  ELSE LET sub == h.links[l].sub
           seen1 == seen \cup {loopState(h, l, queued)}
           marked == Emit([h EXCEPT !.dirty[sub] = TRUE], <<"mark", sub, dep>>)
       IN
       IF sub = NoObj THEN Throw(h)
       ELSE IF shouldNotify(h, sub)
       THEN IF sub \in Computeds
            THEN walkNext(processComputedUpdate(marked, sub), l, queued, seen1, dep)
            ELSE walkNext(marked, l, Append(queued, sub), seen1, dep)
       ELSE walkNext(h, l, queued, seen1, dep)

\* link = link.nextSub
walkNext(h, l, queued, seen, dep) == propagateWalk(h, h.links[l].nextSub, queued, seen, dep)

\* propagate(sub.subs) whatever update() returned
propagateAlways(h, sub) ==
  IF h.halt = "none" THEN propagate(h, sub) ELSE h

\* processComputedUpdate without the test of what update() returns
processComputedUpdateAlways(h, sub) ==
  IF h.subs[sub] = None THEN h ELSE propagateAlways(update(h, sub), sub)

\* a recompute that is not passed on to the subscribers
propagateNever(h, sub) == h

\* propagate(sub.subs) if update() returned true
propagateIfChanged(h, sub) ==
  IF h.halt = "none" /\ h.changed THEN propagate(h, sub) ELSE h

\* if (sub.subs && sub.update()) propagate(sub.subs)
processComputedUpdate(h, sub) ==
  IF h.subs[sub] = None THEN h ELSE propagateIfChanged(update(h, sub), sub)

propagate(h, dep) ==
  propagateWalk(Emit(h, <<"prop", dep>>), h.subs[dep], <<>>, {}, dep)

\* ---- ref.ts: RefImpl set value -------------------------------------------
refSet(h, r, newValue) ==
  IF hasChange(newValue, h.value[r])
  THEN LET h1 == [h EXCEPT !.value[r] = newValue]
       IN IF h1.subs[r] # None THEN propagate(h1, r) ELSE h1
  ELSE h

\* ---- computed.ts: ComputedRefImpl set value ------------------------------
\* The write function of each computed: c2 is computed({ get, set: v => { r1.value = v } }),
\* c1 is computed(getter) and has none
setterOf(c) == IF c = "c2" THEN "r1" ELSE NoObj

\* a set value that calls a write function although none was given
computedSetAlways(h, c, newValue) == refSet(h, "r1", newValue)

computedSet(h, c, newValue) ==
  IF setterOf(c) # NoObj THEN refSet(h, setterOf(c), newValue)
  ELSE Emit(h, <<"warn", c>>)

\* ---- dep.ts: trigger -----------------------------------------------------
\* depsMap.forEach of trigger(target, 'length'), at position i of the map: a
\* key added to the map while the loop runs is visited too
RECURSIVE triggerLength(_, _, _)
triggerLength(h, i, newLength) ==
  IF h.halt # "none" \/ i > Len(h.depsMap) THEN h
  ELSE LET depKey == h.depsMap[i]
       IN IF depKey = "length" \/ (depKey # "length" /\ Idx[depKey] >= newLength)
          THEN triggerLength(propagate(h, depKey), i + 1, newLength)
          ELSE triggerLength(h, i + 1, newLength)

trigger(h, key) ==
  IF h.halt # "none" \/ h.depsMap = <<>> THEN h
  ELSE IF key = "length" THEN triggerLength(h, 1, Len(h.target))
  ELSE IF \E i \in DOMAIN h.depsMap : h.depsMap[i] = key THEN propagate(h, key)
  ELSE h

\* hasChange(newValue, oldValue) on the values of a slot: a ref is identical to itself only
slotChanged(nv, old) ==
  IF isRef(nv) \/ isRef(old) THEN nv # old ELSE hasChange(nv.val, old.val)

\* Reflect.set(target, key, newValue); if (hasChange(newValue, oldValue)) trigger(target, key)
storeSlot(h, key, nv) ==
  IF slotChanged(nv, h.slot) THEN trigger([h EXCEPT !.slot = nv], key)
  ELSE [h EXCEPT !.slot = nv]

\* ---- baseHandlers.ts: mutableHandlers.set on the reactive object ---------
objectSet(h, key, nv) ==
  IF isRef(h.slot) /\ ~isRef(nv) THEN refSet(h, h.slot.ref, nv.val)
  ELSE storeSlot(h, key, nv)

\* Reflect.set(target, key, newValue) on the array
arraySet(t, key, newValue) ==
  IF key = "length"
  THEN [i \in 1..newValue |-> IF i <= Len(t) THEN t[i] ELSE Undef]
  ELSE [i \in 1..(IF Idx[key] < Len(t) THEN Len(t) ELSE Idx[key] + 1) |->
          IF i = Idx[key] + 1 THEN newValue ELSE IF i <= Len(t) THEN t[i] ELSE Undef]

\* if (targetIsArray && newLength !== oldLength && key !== 'length') trigger(target, 'length')
triggerIfResized(h, key, oldLength) ==
  IF Len(h.target) # oldLength /\ key # "length" THEN trigger(h, "length") ELSE h

\* ---- baseHandlers.ts: mutableHandlers.set --------------------------------
reactiveSet(h, key, newValue) ==
  LET h1 == [h EXCEPT !.target = arraySet(h.target, key, newValue)]
  IN triggerIfResized(
       IF hasChange(newValue, arrayGet(h.target, key)) THEN trigger(h1, key) ELSE h1,
       key, Len(h.target))

\* ---------------------------------------------------------------------------
\* reactive.ts: reactive(), and the get and set traps of baseHandlers.ts for
\* plain objects with one property "child"
\* ---------------------------------------------------------------------------

\* JavaScript values: a number, undefined, two plain objects, the Proxy objects
Prim == [kind |-> "number", id |-> 0]
Undefined == [kind |-> "undefined", id |-> 0]
Raw(n) == [kind |-> "raw", id |-> n]
Proxy(n) == [kind |-> "proxy", id |-> n]
RawObjs == {Raw(1), Raw(2)}
Proxies == {Proxy(n) : n \in 1..MaxProxies}
Objects == RawObjs \cup Proxies

isObject(v) == v.kind \in {"raw", "proxy"}

\* the wrap state as a record
W == [reactiveMap |-> reactiveMap, reactiveSet |-> reactiveSetKeys, proxyTarget |-> proxyTarget,
      child |-> child, targetMapKeys |-> targetMapKeys, ret |-> Undefined]

\* new Proxy(target, mutableHandlers); reactiveMap.set; reactiveSet.add
newProxy(w, t) ==
  [w EXCEPT !.proxyTarget = Append(@, t),
            !.reactiveMap[t] = Proxy(Len(w.proxyTarget) + 1),
            !.reactiveSet = @ \cup {Proxy(Len(w.proxyTarget) + 1)},
            !.ret = Proxy(Len(w.proxyTarget) + 1)]

\* createReactiveObject without the lookup in reactiveMap
createReactiveObjectNoCache(w, t) ==
  IF ~isObject(t) THEN [w EXCEPT !.ret = t]
  ELSE IF t \in w.reactiveSet THEN [w EXCEPT !.ret = w.reactiveMap[t]]
  ELSE newProxy(w, t)

\* createReactiveObject
createReactiveObject(w, t) ==
  IF ~isObject(t) THEN [w EXCEPT !.ret = t]
  ELSE IF w.reactiveMap[t] # Undefined THEN [w EXCEPT !.ret = w.reactiveMap[t]]
  ELSE IF t \in w.reactiveSet THEN [w EXCEPT !.ret = w.reactiveMap[t]]
  ELSE newProxy(w, t)

reactive(w, t) == createReactiveObject(w, t)

\* track(target, key) of dep.ts: inside an effect the target gets its depsMap
trackTarget(w, t, inEffect) ==
  IF inEffect THEN [w EXCEPT !.targetMapKeys = @ \cup {t}] ELSE w

\* mutableHandlers.get for the property "child"
proxyGet(w, p, inEffect) ==
  IF isObject(w.child[w.proxyTarget[p.id]])
  THEN reactive(trackTarget(w, w.proxyTarget[p.id], inEffect), w.child[w.proxyTarget[p.id]])
  ELSE [trackTarget(w, w.proxyTarget[p.id], inEffect) EXCEPT !.ret = w.child[w.proxyTarget[p.id]]]

\* mutableHandlers.set for the property "child"; no effect subscribes to it
proxySet(w, p, v) ==
  [w EXCEPT !.child[w.proxyTarget[p.id]] = v, !.ret = v]

\* ---- watch.ts: traverse ---------------------------------------------------
MaxDepth == 3
\* depth = deep === true ? Infinity : deep
Infinity == -3
Depths == (1..MaxDepth) \cup {Infinity}
\* the objects of the graph that watch traverses; Root is the source value
Root == Raw(1)
TravObjs == {Raw(1), Raw(2), Raw(3), Raw(4)}
\* for (const key in value): the keys of an object, in enumeration order
KeysIn(o) == IF o = Root THEN <<"k1", "k2">> ELSE <<"k1">>
Slots == UNION {{<<o, KeysIn(o)[i]>> : i \in DOMAIN KeysIn(o)} : o \in TravObjs}
NoTraversal == [seen |-> {}, reads |-> <<>>, visits |-> <<>>, halt |-> "none"]

\* depth--
Decrement(depth) == IF depth = Infinity THEN Infinity ELSE depth - 1
\* depth <= 0
Exhausted(depth) == depth # Infinity /\ depth <= 0

\* a traverse without the seen set
seenNever(t, v) == FALSE
\* seen.has(value)
seenHas(t, v) == v \in t.seen

RECURSIVE traverse(_, _, _, _), traverseKeys(_, _, _, _, _)
\* traverse(value, depth, seen).  path holds the calls under way that reached
\* their for loop: entering the loop again for one of them never ends.
traverse(t, v, depth, path) ==
  IF t.halt # "none" THEN t
  ELSE IF ~isObject(v) \/ Exhausted(depth) THEN t
  ELSE IF seenHas(t, v) THEN t
  ELSE IF <<v, depth>> \in path THEN [t EXCEPT !.halt = "hang"]
  ELSE traverseKeys([t EXCEPT !.seen = @ \cup {v}, !.visits = Append(@, v)],
                    v, Decrement(depth), path \cup {<<v, depth>>}, 1)

\* the for loop of traverse, at the i-th key of v: value[key] is one read
traverseKeys(t, v, depth, path, i) ==
  IF t.halt # "none" \/ i > Len(KeysIn(v)) THEN t
  ELSE traverseKeys(
         traverse([t EXCEPT !.reads = Append(@, <<v, KeysIn(v)[i]>>)],
                  graph[<<v, KeysIn(v)[i]>>], depth, path),
         v, depth, path, i + 1)

InitWrap ==
  /\ reactiveMap = [o \in Objects |-> Undefined]
  /\ reactiveSetKeys = {}
  /\ proxyTarget = <<>>
  /\ child = [o \in RawObjs |-> IF o = Raw(1) THEN Raw(2) ELSE Prim]
  /\ targetMapKeys = {}
  /\ returned = Undefined
  /\ graph = [sl \in Slots |-> Prim]
  /\ trav = NoTraversal

CommitWrap(w, o) ==
  /\ Len(w.proxyTarget) <= MaxProxies
  /\ reactiveMap' = w.reactiveMap /\ reactiveSetKeys' = w.reactiveSet
  /\ proxyTarget' = w.proxyTarget /\ child' = w.child
  /\ targetMapKeys' = w.targetMapKeys /\ returned' = w.ret
  /\ op' = o
  /\ UNCHANGED <<graph, trav>>
  /\ UNCHANGED <<links, nlinks, linkPool, subs, subsTail, deps, depsTail, tracking,
                 dirty, active, value, activeSub, fn, getter, target, depsMap,
                 wopt, wOldValue, cleanup, prevNew, outcome, log, fresh, slot>>

\* the values user code holds
Created == {Proxy(n) : n \in 1..Len(proxyTarget)}
Args == {Prim, Undefined} \cup RawObjs \cup Created

\* reactive(x)
Reactive(x) == CommitWrap(reactive(W, x), <<"reactive", x>>)

\* p.child, inside an effect or outside
ProxyGet(p, inEffect) == CommitWrap(proxyGet(W, p, inEffect), <<"proxyGet", p>>)

\* p.child = v
ProxySet(p, v) == CommitWrap(proxySet(W, p, v), <<"proxySet", p, v>>)

NextWrap ==
  \/ \E x \in Args : Reactive(x)
  \/ \E p \in Created, inEffect \in BOOLEAN : ProxyGet(p, inEffect)
  \/ \E p \in Created, v \in Args : ProxySet(p, v)


\* ---- the calls user code makes ---------------------------------------------
\* the refs the getter of c reads, directly or through another computed
RefsOf(c) ==
  LET direct(d) == {getter[d].reads[i] : i \in DOMAIN getter[d].reads}
  IN (direct(c) \cap Refs) \cup UNION {direct(d) \cap Refs : d \in direct(c) \cap Computeds}

\* the newValue of the last cb call, or the value seeded, among the first n
\* events of lg; prev if there is none
RECURSIVE LastNew(_, _, _)
LastNew(lg, n, prev) ==
  IF n = 0 THEN prev
  ELSE IF lg[n][1] \in {"cb", "seed"} THEN lg[n][3]
  ELSE LastNew(lg, n - 1, prev)

Commit(h, o) ==
  /\ h.halt # "bound"
  /\ links' = h.links /\ nlinks' = h.nlinks /\ linkPool' = h.linkPool
  /\ subs' = h.subs /\ subsTail' = h.subsTail
  /\ deps' = h.deps /\ depsTail' = h.depsTail
  /\ tracking' = h.tracking /\ dirty' = h.dirty /\ active' = h.active
  /\ value' = h.value /\ activeSub' = h.activeSub /\ fn' = h.fn
  /\ getter' = getter /\ target' = h.target /\ depsMap' = h.depsMap
  /\ slot' = h.slot
  /\ wopt' = h.wopt /\ wOldValue' = h.oldValue /\ cleanup' = h.cleanup
  /\ prevNew' = LastNew(h.log, Len(h.log), prevNew)
  /\ UNCHANGED wrapVars
  /\ outcome' = IF h.halt = "none" THEN "ok" ELSE h.halt
  /\ op' = o
  /\ log' = h.log
  /\ fresh' = [c \in Computeds |->
                 IF \E i \in DOMAIN h.log : h.log[i] = <<"read", c>> THEN TRUE
                 ELSE IF o[1] = "set" /\ o[2] \in RefsOf(c) /\ o[3] # value[o[2]] THEN FALSE
                 ELSE fresh[c]]

InitState(g) ==
  /\ links = [l \in LinkIds |-> NoLink]
  /\ nlinks = 0
  /\ linkPool = None
  /\ subs = [d \in Deps |-> None]
  /\ subsTail = [d \in Deps |-> None]
  /\ deps = [s \in Subs |-> None]
  /\ depsTail = [s \in Subs |-> None]
  /\ tracking = [s \in Subs |-> FALSE]
  /\ dirty = [s \in Subs |-> s \in Computeds]
  /\ active = [e \in Runners |-> TRUE]
  /\ value = [d \in Deps |-> IF d \in Refs THEN 0 ELSE Undef]
  /\ activeSub = NoObj
  /\ fn = [e \in Runners |-> NoBody]
  /\ getter = g
  /\ target = <<>>
  /\ depsMap = <<>>
  /\ slot = RefVal("r1")
  /\ wopt = NoWatch
  /\ wOldValue = Undef
  /\ cleanup = FALSE
  /\ prevNew = Undef
  /\ outcome = "ok"
  /\ op = <<"init">>
  /\ log = <<>>
  /\ fresh = [c \in Computeds |-> FALSE]
  /\ InitWrap

\* a program with refs and effects
Init == InitState([c \in Computeds |-> [reads |-> <<"r1">>, f |-> "sum"]])

\* a program with refs, computeds and effects
InitComputed ==
  \E g1 \in Getters1, g2 \in Getters2 :
      InitState([c \in Computeds |-> IF c = "c1" THEN g1 ELSE g2])

\* effect(fn)
EffectNew(e, body) ==
  /\ outcome # "hang"
  /\ fn[e] = NoBody
  /\ Commit(run([H EXCEPT !.fn[e] = body], e), <<"effect", e>>)

\* runner(): the function effect() returns
RunnerCall(e) ==
  /\ outcome # "hang"
  /\ fn[e] # NoBody
  /\ Commit(run(H, e), <<"runner", e>>)

\* runner.effect.stop()
EffectStop(e) ==
  /\ outcome # "hang"
  /\ fn[e] # NoBody
  /\ Commit(stop(H, e), <<"stop", e>>)

\* r.value = v
RefSet(r, v) ==
  /\ outcome # "hang"
  /\ Commit(refSet(H, r, v), <<"set", r, v>>)

\* c.value read outside any effect
ComputedGet(c) ==
  /\ outcome # "hang"
  /\ Commit(computedGet(H, c), <<"get", c>>)

Next ==
  \/ \E e \in Effects, body \in Bodies : EffectNew(e, body)
  \/ \E e \in Effects : RunnerCall(e)
  \/ \E e \in Effects : EffectStop(e)
  \/ \E r \in Refs, v \in Values : RefSet(r, v)

Spec == Init /\ [][Next]_vars

\* the bodies each effect of the computed program may be given
ComputedBodiesOf(e) == IF e = "e1" THEN ComputedBodies ELSE {<<Rd("c1")>>}

\* arr[key] = v, arr.length = v
ReactiveSet(key, v) ==
  /\ outcome # "hang"
  /\ Commit(reactiveSet(H, key, v), <<"set", key, v>>)

\* the bodies each effect of the array program may be given
ArrayBodiesOf(e) == IF e = "e1" THEN ArrayBodies ELSE {<<Rd("1")>>}

NextArray ==
  \/ \E e \in Effects : \E body \in ArrayBodiesOf(e) : EffectNew(e, body)
  \/ \E e \in Effects : RunnerCall(e)
  \/ \E e \in Effects : EffectStop(e)
  \/ \E key \in ArrKeys :
       \E v \in (IF key = "length" THEN 0..MaxArr ELSE Values) : ReactiveSet(key, v)

\* a program with a reactive array and effects
SpecArray == Init /\ [][NextArray]_vars

\* the options of watch() and whether the callback calls onCleanup
WatchOptions ==
  [source : {"r1"}, immediate : BOOLEAN, once : BOOLEAN, registers : BOOLEAN]

\* watch(r, cb, options)
WatchNew(w, o) ==
  /\ outcome # "hang"
  /\ wopt = NoWatch
  /\ Commit(watch([H EXCEPT !.wopt = o, !.fn[w] = <<Rd(o.source)>>], w), <<"watch", w>>)

\* the stop function watch() returns
WatchStop(w) ==
  /\ outcome # "hang"
  /\ wopt # NoWatch
  /\ Commit(stop(H, w), <<"stop", w>>)

\* the second effect reads the watched ref
WatchBodiesOf(e) == IF e = "e1" THEN WatchBodies ELSE { <<Rd("r1")>> }

\* r2 is the flag that the conditional body reads
WatchValuesOf(r) == IF r = "r1" THEN Values ELSE {0, 1}

NextWatch ==
  \/ \E o \in WatchOptions : WatchNew("w", o)
  \/ WatchStop("w")
  \/ \E e \in Effects : \E body \in WatchBodiesOf(e) : EffectNew(e, body)
  \/ \E e \in Effects : EffectStop(e)
  \/ \E r \in Refs : \E v \in WatchValuesOf(r) : RefSet(r, v)

\* a program with a watch, two effects and refs
SpecWatch == Init /\ [][NextWatch]_vars

\* the values the computed program writes to each ref: r2 is a flag
ComputedValuesOf(r) == IF r = "r1" THEN Values ELSE {0, 1}

NextComputed ==
  \/ \E e \in Effects : \E body \in ComputedBodiesOf(e) : EffectNew(e, body)
  \/ \E e \in Effects : RunnerCall(e)
  \/ EffectStop("e1")
  \/ \E r \in Refs : \E v \in ComputedValuesOf(r) : RefSet(r, v)
  \/ \E c \in Computeds : ComputedGet(c)

SpecComputed == InitComputed /\ [][NextComputed]_vars

\* the second effect reads the computed whose getter may throw
ThrowBodiesOf(e) == IF e = "e1" THEN ThrowBodies ELSE { <<Rd("c1")>> }

NextThrow ==
  \/ \E e \in Effects : \E body \in ThrowBodiesOf(e) : EffectNew(e, body)
  \/ EffectStop("e1")
  \/ \E r \in Refs : \E v \in ComputedValuesOf(r) : RefSet(r, v)
  \/ ComputedGet("c1")

\* a program whose effect bodies and computed getter may throw
InitThrow == InitState([c \in Computeds |-> ThrowGetter])
SpecThrow == InitThrow /\ [][NextThrow]_vars

\* the first effect throws while r1 is not 0, the second reads r1 without throwing
QueueBodiesOf(e) ==
  IF e = "e1" THEN { <<ThrowIf("r1")>>, <<ThrowIf("r1"), Rd("r2")>>, <<Rd("r2"), ThrowIf("r1")>> }
  ELSE { <<Rd("r1")>>, <<Rd("r1"), Rd("r2")>> }

NextQueue ==
  \/ \E e \in Effects : \E body \in QueueBodiesOf(e) : EffectNew(e, body)
  \/ \E e \in Effects : EffectStop(e)
  \/ \E r \in Refs : \E v \in Values : RefSet(r, v)

\* a program in which one of two effects queued by the same write throws
SpecQueue == Init /\ [][NextQueue]_vars

\* the bodies of the effects that stop themselves while r1 is not 0
SelfStopBodies ==
  { <<StopIf("r1"), Rd("r2")>>, <<Rd("r2"), StopIf("r1")>>, <<StopIf("r1")>> }

\* runner is assigned when effect() returns: the first run of the body must
\* not reach runner.effect.stop()
NextSelfStop ==
  \/ \E e \in Effects : \E body \in SelfStopBodies : value["r1"] = 0 /\ EffectNew(e, body)
  \/ \E e \in Effects : RunnerCall(e)
  \/ \E r \in Refs : \E v \in Values : RefSet(r, v)

\* a program whose effects call stop() on themselves from their bodies
SpecSelfStop == Init /\ [][NextSelfStop]_vars

\* c.value = v
ComputedSet(c, v) ==
  /\ outcome # "hang"
  /\ Commit(computedSet(H, c, v), <<"cset", c, v>>)

\* the bodies of the effects of the program that writes to computeds
SetterBodies == { <<Rd("c1")>>, <<Rd("c1"), Rd("c2")>>, <<Rd("r1"), Rd("c1")>> }

SetterBodiesOf(e) == IF e = "e1" THEN SetterBodies ELSE { <<Rd("c1")>> }

NextSetter ==
  \/ \E e \in Effects : \E body \in SetterBodiesOf(e) : EffectNew(e, body)
  \/ \E e \in Effects : EffectStop(e)
  \/ \E v \in Values : RefSet("r1", v)
  \/ \E c \in Computeds : ComputedGet(c)
  \/ \E c \in Computeds, v \in Values : ComputedSet(c, v)

\* a program that writes to computeds with and without a write function
SpecSetter == Init /\ [][NextSetter]_vars

\* state.a = nv
ObjectSet(key, nv) ==
  /\ outcome # "hang"
  /\ Commit(objectSet(H, key, nv), <<"oset", key, nv>>)

\* the numbers the object program writes, and the values it assigns to state.a
ObjectValues == Values \cup {NaN}
SlotValues == {PlainVal(v) : v \in ObjectValues} \cup {RefVal("r1")}

\* the bodies of the effects of the object program
ObjectBodies == { <<Rd("a")>>, <<Rd("r1")>>, <<Rd("a"), Rd("r1")>> }
ObjectBodiesOf(e) == IF e = "e1" THEN ObjectBodies ELSE { <<Rd("a")>>, <<Rd("r1")>> }

NextObject ==
  \/ \E e \in Effects : \E body \in ObjectBodiesOf(e) : EffectNew(e, body)
  \/ \E e \in Effects : EffectStop(e)
  \/ \E v \in ObjectValues : RefSet("r1", v)
  \/ \E nv \in SlotValues : ObjectSet("a", nv)

\* a program with state = reactive({ a: r1 }), refs and effects
SpecObject == Init /\ [][NextObject]_vars

\* a program that wraps plain objects
\* effect bodies that write a ref: the ref they read, or the other one
WriteBodies ==
  { <<Rd("r1"), Wr("r1", 1)>>, <<Rd("r1"), Rd("r1")>>,
    <<Rd("r2"), Wr("r1", 0)>>, <<Rd("r1"), Wr("r2", 1)>> }

NextWrite ==
  \/ \E e \in Effects : \E body \in WriteBodies : EffectNew(e, body)
  \/ \E e \in Effects : RunnerCall(e)
  \/ \E e \in Effects : EffectStop(e)
  \/ \E r \in Refs : \E v \in Values : RefSet(r, v)

\* a program whose effects write refs in their bodies
SpecWrite == Init /\ [][NextWrite]_vars

\* effect bodies that read computeds and refs, one of them writing r2 between
\* two reads, which runs the effects subscribed to r2 inside its own run
NestedBodies ==
  { <<Rd("c2"), Rd("r2")>>, <<Rd("r1"), Wr("r2", 1), Rd("c2")>>, <<Rd("r2"), Rd("c2")>> }

NextNested ==
  \/ \E e \in Effects : \E body \in NestedBodies : EffectNew(e, body)
  \/ \E e \in Effects : RunnerCall(e)
  \/ EffectStop("e1")
  \/ \E r \in Refs : \E v \in ComputedValuesOf(r) : RefSet(r, v)

\* a program whose effects run computeds and other effects inside their runs
SpecNested == InitComputed /\ [][NextNested]_vars

\* flag = false
FlagClear(e) ==
  /\ outcome # "hang"
  /\ fn[e][1] = Guard(1)
  /\ fn' = [fn EXCEPT ![e][1] = Guard(0)]
  /\ op' = <<"flag", e>> /\ log' = <<>> /\ outcome' = "ok"
  /\ UNCHANGED <<links, nlinks, linkPool, subs, subsTail, deps, depsTail, tracking, dirty,
                 active, value, activeSub, getter, target, depsMap, slot, wopt, wOldValue,
                 cleanup, prevNew, fresh>>
  /\ UNCHANGED wrapVars

\* effect bodies that return before their reads once the flag is cleared
EarlyBodies ==
  { <<Guard(1), Rd("r1")>>, <<Guard(1), Rd("r1"), Rd("r2")>>, <<Guard(1), Rd("r2"), Rd("r2")>>,
    <<Rd("r1")>> }

NextEarly ==
  \/ \E e \in Effects : \E body \in EarlyBodies : EffectNew(e, body)
  \/ \E e \in Effects : FlagClear(e)
  \/ \E e \in Effects : RunnerCall(e)
  \/ \E e \in Effects : EffectStop(e)
  \/ \E r \in Refs : \E v \in Values : RefSet(r, v)

\* a program whose effects can return before they read anything
SpecEarly == Init /\ [][NextEarly]_vars

\* effect bodies of the programs in which c2 is computed from c1
ChainBodies == { <<Rd("c2")>>, <<Rd("c2"), Rd("r2")>>, <<Rd("c1")>> }

NextChain ==
  \/ \E e \in Effects : \E body \in ChainBodies : EffectNew(e, body)
  \/ \E e \in Effects : RunnerCall(e)
  \/ \E e \in Effects : EffectStop(e)
  \/ \E r \in Refs : \E v \in ComputedValuesOf(r) : RefSet(r, v)
  \/ \E c \in Computeds : ComputedGet(c)

\* c1 = computed(() => r1.value + r2.value ? 1 : 0), c2 = computed(() => c1.value)
InitChain ==
  InitState([c \in Computeds |-> IF c = "c1" THEN [reads |-> <<"r1", "r2">>, f |-> "bool"]
                                            ELSE [reads |-> <<"c1">>, f |-> "sum"]])
SpecChain == InitChain /\ [][NextChain]_vars

\* getter = () => traverse(baseGetter(), depth), run once on the source value
Traverse(depth) ==
  /\ trav' = traverse(NoTraversal, Root, depth, {})
  /\ op' = <<"traverse", depth>>
  /\ UNCHANGED <<links, nlinks, linkPool, subs, subsTail, deps, depsTail, tracking, dirty,
                 active, value, activeSub, fn, getter, target, depsMap, slot, wopt, wOldValue,
                 cleanup, prevNew, fresh, outcome, log, graph,
                 reactiveMap, reactiveSetKeys, proxyTarget, child, targetMapKeys, returned>>

\* o[k] = v in the program that builds the object graph
SetProperty(o, k, v) ==
  /\ graph' = [graph EXCEPT ![<<o, k>>] = v]
  /\ trav' = NoTraversal
  /\ op' = <<"property", o, k>>
  /\ UNCHANGED <<links, nlinks, linkPool, subs, subsTail, deps, depsTail, tracking, dirty,
                 active, value, activeSub, fn, getter, target, depsMap, slot, wopt, wOldValue,
                 cleanup, prevNew, fresh, outcome, log,
                 reactiveMap, reactiveSetKeys, proxyTarget, child, targetMapKeys, returned>>

NextTraverse ==
  \/ \E sl \in Slots : \E v \in TravObjs \cup {Prim} : SetProperty(sl[1], sl[2], v)
  \/ \E depth \in Depths : Traverse(depth)

\* a program that builds an object graph and traverses it
SpecTraverse == Init /\ [][NextTraverse]_vars

SpecWrap == Init /\ [][NextWrap]_vars

\* ---- reading the lists ---------------------------------------------------
RECURSIVE WalkSub(_, _), WalkDep(_, _)
\* the links met following nextSub from l, at most n of them
WalkSub(l, n) == IF l = None \/ n = 0 THEN <<>> ELSE <<l>> \o WalkSub(links[l].nextSub, n - 1)
\* the links met following nextDep from l, at most n of them
WalkDep(l, n) == IF l = None \/ n = 0 THEN <<>> ELSE <<l>> \o WalkDep(links[l].nextDep, n - 1)

SubList(p) == WalkSub(subs[p], MaxLinks + 1)
DepList(s) == WalkDep(deps[s], MaxLinks + 1)
PoolList == WalkDep(linkPool, MaxLinks + 1)
Range(q) == {q[i] : i \in DOMAIN q}
NoRepeat(q) == \A i, j \in DOMAIN q : q[i] = q[j] => i = j
Quiet == outcome = "ok"

\* the links of Link objects that are in use: allocated and not in the pool
Live == {l \in 1..nlinks : l \notin Range(PoolList)}
\* the deps that the last call passed to link() for subscriber s
ReadsOf(s, lg) == {lg[i][2] : i \in {j \in DOMAIN lg : lg[j][1] = "link" /\ lg[j][3] = s}}
Ran(s, lg) == \E i \in DOMAIN lg : lg[i] = <<"run", s>>
HasEdge(s, p) == \E i \in DOMAIN DepList(s) : links[DepList(s)[i]].dep = p
InSubs(p, s) == \E i \in DOMAIN SubList(p) : links[SubList(p)[i]].sub = s

\* C1: after completed executions, a consumer's dependency list holds at most
\* one edge to each producer and a producer's subscriber list holds at most one
\* edge of each consumer.
EdgeUniqueness ==
  Quiet =>
    \A p \in Deps, s \in Subs :
      /\ Cardinality({i \in DOMAIN DepList(s) : links[DepList(s)[i]].dep = p}) <= 1
      /\ Cardinality({i \in DOMAIN SubList(p) : links[SubList(p)[i]].sub = s}) <= 1

\* C2: when an execution of consumer s no longer reads a producer p it had an
\* edge to, then afterwards s has no edge to p and p's subscriber list holds no
\* edge of s; and a write to a producer that s has no edge to does not run s.
PruningCorrectness ==
  [][ \A s \in Effects, p \in Refs :
        /\ ( /\ HasEdge(s, p) /\ outcome' = "ok"
             /\ op' \in {<<"runner", s>>} /\ active[s] /\ p \notin ReadsOf(s, log') )
           => (~HasEdge(s, p))' /\ (~InSubs(p, s))'
        /\ ( /\ ~HasEdge(s, p) /\ outcome = "ok"
             /\ \E v \in Values : op' = <<"set", p, v>> )
           => ~Ran(s, log') ]_vars

\* the links reachable from the list heads and tails of the producers and consumers
RECURSIVE Closure(_, _)
Closure(S, n) ==
  IF n = 0 THEN S
  ELSE Closure(S \cup ({links[l].nextSub : l \in S} \ {None})
                 \cup ({links[l].prevSub : l \in S} \ {None}), n - 1)
ReachSub == Closure(({subs[p] : p \in Deps} \cup {subsTail[p] : p \in Deps}) \ {None}, MaxLinks)
ReachDep == UNION {Range(DepList(s)) : s \in Subs} \cup ({depsTail[s] : s \in Subs} \ {None})

\* C5: no edge in the pool is reachable from a subscriber list or a dependency
\* list, and an edge in use points only to edges of its own producer.
PoolIsolation ==
  /\ \A l \in Range(PoolList) : l \notin ReachSub /\ l \notin ReachDep
  /\ \A l \in Live :
       /\ links[l].nextSub # None => links[links[l].nextSub].dep = links[l].dep
       /\ links[l].prevSub # None => links[links[l].prevSub].dep = links[l].dep

\* C6: every edge in the pool has nextSub, prevSub, sub and dep cleared.
ReleasedEdgeCleared ==
  \A l \in Range(PoolList) :
    /\ links[l].nextSub = None /\ links[l].prevSub = None
    /\ links[l].sub = NoObj /\ links[l].dep = NoObj

\* C7: every edge in use is exactly once in the subscriber list of its dep and
\* exactly once in the dependency list of its sub, and in no other list.
LiveEdgeMembership ==
  Quiet =>
    \A l \in Live :
      /\ \A p \in Deps :
           Cardinality({i \in DOMAIN SubList(p) : SubList(p)[i] = l})
             = IF links[l].dep = p THEN 1 ELSE 0
      /\ \A s \in Subs :
           Cardinality({i \in DOMAIN DepList(s) : DepList(s)[i] = l})
             = IF links[l].sub = s THEN 1 ELSE 0

\* the pool as a stack (head first) after the pool events of lg from position i
\* on, starting from stack st; <<-1>> if an event does not fit a stack:
\* a pop that does not take the head, or an allocation while the stack is not empty
RECURSIVE ReplayPool(_, _, _)
ReplayPool(st, lg, i) ==
  IF i > Len(lg) THEN st
  ELSE IF lg[i][1] = "push" THEN ReplayPool(<<lg[i][2]>> \o st, lg, i + 1)
  ELSE IF lg[i][1] = "pop"
       THEN IF st # <<>> /\ Head(st) = lg[i][2] THEN ReplayPool(Tail(st), lg, i + 1)
            ELSE <<-1>>
  ELSE IF lg[i][1] = "alloc"
       THEN IF st = <<>> THEN ReplayPool(st, lg, i + 1) ELSE <<-1>>
  ELSE ReplayPool(st, lg, i + 1)

Props(lg) == {lg[i][2] : i \in {j \in DOMAIN lg : lg[j][1] = "prop"}}

\* C3: an effect that holds edges to two or more of the producers that one
\* write to the array propagates runs exactly once for that write.
SingleNotification ==
  [][ \A e \in Effects :
        ( /\ op'[1] = "set" /\ op'[2] \in ArrKeys
          /\ outcome = "ok" /\ outcome' = "ok" /\ active[e]
          /\ Cardinality({p \in Props(log') : HasEdge(e, p)}) >= 2 )
        => Cardinality({i \in DOMAIN log' : log'[i] = <<"run", e>>}) = 1 ]_vars

Count(lg, e) == Cardinality({i \in DOMAIN lg : lg[i] = e})
IsWrite(o, r) == o[1] = "set" /\ o[2] = r /\ o[3] # value[r]

\* C4: an effect that reads two computeds that both depend on ref r runs
\* exactly once for a write to r that changes both computeds.
DiamondSingleExecution ==
  [][ \A e \in Effects, r \in Refs :
        ( /\ IsWrite(op', r) /\ outcome = "ok" /\ outcome' = "ok"
          /\ HasEdge(e, "c1") /\ HasEdge(e, "c2")
          /\ HasEdge("c1", r) /\ HasEdge("c2", r)
          /\ value'["c1"] # value["c1"] /\ value'["c2"] # value["c2"] )
        => Count(log', <<"run", e>>) = 1 ]_vars

\* C9: while a computed has been read and no ref it depends on has changed
\* since, no call executes its getter.
Memoization ==
  [][ \A c \in Computeds :
        ( /\ fresh[c]
          /\ ~(\E r \in RefsOf(c) : IsWrite(op', r)) )
        => Count(log', <<"get", c>>) = 0 ]_vars

Updates(lg, c) == {i \in DOMAIN lg : lg[i][1] = "update" /\ lg[i][2] = c}

EdgeCount(s, p) == Cardinality({i \in DOMAIN DepList(s) : links[DepList(s)[i]].dep = p})

\* C11: an effect runs exactly once when it is created, and an effect that
\* reads ref r runs exactly once for a value-changing write to r, which leaves
\* the number of edges between r and the effect as it was.
RunsOncePerWrite ==
  [][ \A e \in Effects :
        /\ op' = <<"effect", e>> => Count(log', <<"run", e>>) = 1
        /\ \A r \in Refs :
             ( /\ IsWrite(op', r) /\ outcome = "ok"
               /\ active[e] /\ HasEdge(e, r) )
             => /\ outcome' = "ok"
                /\ Count(log', <<"run", e>>) = 1
                /\ EdgeCount(e, r)' = EdgeCount(e, r) ]_vars
\* the engine state that stop() may change
EngineState == <<links, linkPool, subs, subsTail, deps, depsTail, tracking, dirty,
                 active, value, activeSub>>

\* C12: stop() of an effect or of a watch returns normally and leaves it
\* inactive; from then on it has no edges, is in no subscriber list, no
\* write runs its body or calls its callback, and another stop() changes
\* nothing.
StopTearsDown ==
  /\ [](\A e \in Runners :
          (~active[e] /\ Quiet) =>
             /\ deps[e] = None /\ depsTail[e] = None
             /\ \A p \in Deps : ~InSubs(p, e)
             /\ \A l \in Live : links[l].sub # e)
  /\ [][ \A e \in Runners :
           /\ op' = <<"stop", e>> => outcome' = "ok" /\ ~active'[e]
           /\ ~active[e] =>
                /\ op'[1] = "set" =>
                     /\ ~Ran(e, log')
                     /\ \A i \in DOMAIN log' : log'[i][1] \in {"cb", "cleanup"} => log'[i][2] # e
                /\ op' = <<"stop", e>> => EngineState' = EngineState ]_vars

\* a watch or an effect that had an edge to a ref was stopped and the ref was
\* then written
StopWitness ==
  \E e \in Runners, r \in Refs :
    /\ ~active[e] /\ op = <<"set", r, value[r]>> /\ log # <<>>
    /\ \E i \in DOMAIN fn[e] : fn[e][i].p = r

\* C13: reactive(p), for p a wrapper that reactive() created, returns p.
WrapIdempotence ==
  [][ \A p \in Proxies :
        (p \in reactiveSetKeys /\ op' = <<"reactive", p>>) => returned' = p ]_vars

\* the wrappers whose target is the raw object o
WrappersOf(o) == {n \in DOMAIN proxyTarget : proxyTarget[n] = o}

\* C14: every reactive(o) of a raw object o, and every read through a wrapper
\* of a property that holds o, returns the same wrapper; o has at most one
\* wrapper, and the depsMap registries are keyed by raw objects only.
WrapIdentityStability ==
  /\ [](/\ \A o \in RawObjs : Cardinality(WrappersOf(o)) <= 1
        /\ \A n \in DOMAIN proxyTarget : proxyTarget[n] \in RawObjs
        /\ targetMapKeys \subseteq RawObjs)
  /\ [][ \A o \in RawObjs :
           /\ ( \/ op' = <<"reactive", o>>
                \/ /\ op'[1] = "proxyGet" /\ op'[2] \in Created /\ child[proxyTarget[op'[2].id]] = o )
              => /\ returned' \in Proxies /\ proxyTarget'[returned'.id] = o
                 /\ reactiveMap[o] # Undefined => returned' = reactiveMap[o]
           /\ reactiveMap[o] # Undefined => reactiveMap'[o] = reactiveMap[o] ]_vars

\* a raw object that already has a wrapper was read as a nested property
\* inside an effect, and the read returned that wrapper
WrapIdentityWitness ==
  /\ op[1] = "proxyGet" /\ returned \in Proxies /\ returned # op[2]
  /\ proxyTarget[op[2].id] \in targetMapKeys
  /\ Len(proxyTarget) = 2

\* the calls of the callback of watch w in a log, in order
CbIndexes(lg, w) == {i \in DOMAIN lg : lg[i][1] = "cb" /\ lg[i][2] = w}
OneCb(lg, w, newValue, oldValue) ==
  /\ Cardinality(CbIndexes(lg, w)) = 1
  /\ \A i \in CbIndexes(lg, w) : lg[i] = <<"cb", w, newValue, oldValue>>

\* C15: watch with immediate calls cb exactly once during setup, with
\* (current value, undefined); every later write that changes the source
\* calls it exactly once with (new value, newValue of the previous call).
WatchImmediate ==
  [][ \A w \in Watchers :
        /\ (op' = <<"watch", w>> /\ wopt'.immediate)
             => /\ outcome' = "ok"
                /\ OneCb(log', w, value[wopt'.source], Undef)
        /\ (wopt.immediate /\ active[w] /\ outcome = "ok" /\ IsWrite(op', wopt.source))
             => /\ outcome' = "ok"
                /\ OneCb(log', w, op'[3], prevNew) ]_vars

\* C16: watch without immediate does not call cb during setup; every later
\* write that changes the source calls it exactly once, the first time with
\* the value seeded at setup as oldValue and then with the newValue of the
\* previous call.
WatchLazy ==
  [][ \A w \in Watchers :
        /\ (op' = <<"watch", w>> /\ ~wopt'.immediate)
             => /\ outcome' = "ok"
                /\ CbIndexes(log', w) = {}
                /\ prevNew' = value[wopt'.source] /\ wOldValue' = value[wopt'.source]
        /\ (wopt # NoWatch /\ ~wopt.immediate /\ active[w] /\ outcome = "ok"
              /\ IsWrite(op', wopt.source))
             => /\ outcome' = "ok"
                /\ OneCb(log', w, op'[3], prevNew) ]_vars

\* Replays the events of watch w in a log from position i on. pending says
\* whether a registered cleanup is waiting, registers whether cb calls
\* onCleanup. The result is "bad" when a
\* cleanup is called that is not waiting, when a call of cleanup is not
\* directly followed by the run of the getter, or when the getter runs or
\* cb is called while a cleanup is waiting; otherwise it says whether a
\* cleanup waits at the end.
RECURSIVE CleanupReplay(_, _, _, _, _)
CleanupReplay(lg, i, pending, registers, w) ==
  IF i > Len(lg) THEN (IF pending THEN "pending" ELSE "none")
  ELSE IF lg[i] = <<"cleanup", w>>
       THEN IF pending /\ i < Len(lg) /\ lg[i + 1] = <<"run", w>>
            THEN CleanupReplay(lg, i + 1, FALSE, registers, w)
            ELSE "bad"
  ELSE IF lg[i] = <<"run", w>>
       THEN IF pending THEN "bad" ELSE CleanupReplay(lg, i + 1, FALSE, registers, w)
  ELSE IF lg[i][1] = "cb" /\ lg[i][2] = w
       THEN IF pending THEN "bad" ELSE CleanupReplay(lg, i + 1, registers, registers, w)
  ELSE CleanupReplay(lg, i + 1, pending, registers, w)

NoEdges(s) ==
  /\ deps[s] = None /\ depsTail[s] = None
  /\ \A l \in Live : links[l].sub # s

\* C18: a watch with once calls cb at most once, with or without immediate:
\* a call happens only while the watch is active, it is the only one of its
\* step, and after it the effect of the watch is stopped for good and holds
\* no edges.
WatchOnce ==
  [][ \A w \in Watchers :
        wopt'.once =>
          /\ CbIndexes(log', w) # {} =>
               /\ active[w] /\ Cardinality(CbIndexes(log', w)) = 1
               /\ ~active'[w] /\ NoEdges(w)'
          /\ ~active[w] => ~active'[w] ]_vars

\* a write to the source made a watch with once and without immediate call
\* cb while another effect stays subscribed to the source
WatchOnceWitness ==
  \E w \in Watchers :
    /\ wopt.once /\ ~wopt.immediate /\ ~active[w] /\ NoEdges(w)
    /\ op[1] = "set" /\ op[2] = wopt.source /\ CbIndexes(log, w) # {}
    /\ subs[wopt.source] # None

\* the subscribers whose body or getter started in a log, and how often
Started(s, lg) == Cardinality({i \in DOMAIN lg : lg[i] = <<"run", s>> \/ lg[i] = <<"get", s>>})
Threw(lg) == \E i \in DOMAIN lg : lg[i][1] = "throw"

\* C19: when the body of an effect or the getter of a computed throws, the
\* call that reaches the user ends with the error, activeSub is what it was
\* before the call, no subscriber is left tracking, every subscriber that
\* ran in the call is clean, and a subscriber that ran once keeps exactly
\* the edges it read before the error.
ErrorCleanup ==
  [][ Threw(log') =>
        /\ outcome' = "exc"
        /\ activeSub' = activeSub
        /\ \A s \in Subs :
             /\ ~tracking'[s]
             /\ (Started(s, log') > 0 /\ (s \in Computeds \/ active[s])) => ~dirty'[s]
             /\ (Started(s, log') = 1 /\ (s \in Computeds \/ active[s]))
                  => \A p \in Deps : HasEdge(s, p)' <=> p \in ReadsOf(s, log') ]_vars

\* an effect that had edges to r1 and r2 ran again because of a write and
\* threw after reading r1: the edge to r2 is gone
ErrorCleanupWitness ==
  \E e \in Effects :
    /\ op[1] = "set" /\ outcome = "exc"
    /\ \E i \in DOMAIN log : log[i] = <<"throw", e>>
    /\ \E i \in DOMAIN log : log[i][1] = "push"
    /\ HasEdge(e, "r1") /\ ~HasEdge(e, "r2")

\* C20: c.value = v on a computed without a write function only logs a
\* warning: the values, the dirty flags, the edge lists, the pool and
\* activeSub are unchanged and nothing is run.
ReadonlyWriteIsNoOp ==
  [][ \A c \in Computeds :
        (op'[1] = "cset" /\ op'[2] = c /\ setterOf(c) = NoObj)
          => /\ outcome' = "ok"
             /\ EngineState' = EngineState /\ nlinks' = nlinks
             /\ log' = << <<"warn", c>> >> ]_vars

\* a write to the computed without write function that an effect subscribes
\* to, with a value other than its memoized one
ReadonlyWriteWitness ==
  \E c \in Computeds :
    /\ op[1] = "cset" /\ op[2] = c /\ setterOf(c) = NoObj
    /\ op[3] # value[c] /\ value[c] # Undef /\ subs[c] # None

\* the keys that have a producer in the depsMap of the array
KeysOf(m) == {m[i] : i \in DOMAIN m}
\* key k is the length or an index at or above n
AtOrAbove(k, n) == k = "length" \/ (k # "length" /\ Idx[k] >= n)

\* C21: a write that changes the length of the array propagates, once each,
\* the length producer and every index producer whose key is >= the new
\* length, and no index producer whose key is below it.
LengthWritePropagation ==
  [][ (op'[1] = "set" /\ op'[2] = "length" /\ op'[3] # Len(target) /\ outcome = "ok") =>
        /\ \A k \in KeysOf(depsMap) : AtOrAbove(k, op'[3]) => k \in Props(log')
        /\ \A k \in Props(log') : AtOrAbove(k, op'[3]) /\ Count(log', <<"prop", k>>) = 1 ]_vars

\* C22: state.a = v, for v that is not a ref while the slot holds a ref,
\* writes v to that ref: the slot still holds the same ref, the producer of
\* key "a" is not propagated, and when v differs from the ref's value every
\* active subscriber of the ref runs exactly once.
RefSlotWriteForwarded ==
  [][ (op'[1] = "oset" /\ isRef(slot) /\ ~isRef(op'[3]) /\ outcome = "ok") =>
        /\ outcome' = "ok"
        /\ slot' = slot
        /\ value'[slot.ref] = op'[3].val
        /\ "a" \notin Props(log')
        /\ \A e \in Effects :
             (active[e] /\ HasEdge(e, slot.ref) /\ op'[3].val # value[slot.ref])
               => Count(log', <<"run", e>>) = 1 ]_vars

RECURSIVE ReplayRuns(_, _, _)
\* no active effect starts to run, or is marked dirty, between the start and
\* the end of one of its own runs
ReplayRuns(lg, i, running) ==
  IF i > Len(lg) THEN TRUE
  ELSE IF lg[i][1] = "run" /\ active[lg[i][2]]
  THEN lg[i][2] \notin running /\ ReplayRuns(lg, i + 1, running \cup {lg[i][2]})
  ELSE IF lg[i][1] = "end"
  THEN ReplayRuns(lg, i + 1, running \ {lg[i][2]})
  ELSE IF lg[i][1] = "mark"
  THEN lg[i][2] \notin running /\ ReplayRuns(lg, i + 1, running)
  ELSE ReplayRuns(lg, i + 1, running)

\* two marks of effect e in the walk of dep's subscriber list are two walks
MarkedOncePerWalk(lg) ==
  \A i, j \in DOMAIN lg :
    (i < j /\ lg[i][1] = "mark" /\ lg[i][2] \in Effects /\ lg[j] = lg[i])
      => \E k \in (i + 1)..(j - 1) : lg[k] = <<"prop", lg[i][3]>>

Between(lg, a, b, c) ==
  \E i, j, k \in DOMAIN lg : i < j /\ j < k /\ lg[i] = a /\ lg[j] = b /\ lg[k] = c

\* C24: propagate skips every consumer that is tracking or dirty: an effect is
\* neither run again nor marked while one of its runs is under way, whatever
\* its body writes, and one walk of a subscriber list marks an effect at most
\* once, however many edges of the list lead to it.
PropagateSkipsTrackingAndDirty ==
  [][ ReplayRuns(log', 1, {}) /\ MarkedOncePerWalk(log') ]_vars
\* e1 reads r1 and then writes it in the run that a write to r1 started, and
\* e2, which holds two edges to r1, was marked once by that write
PropagateSkipsWitness ==
  /\ op = <<"set", "r1", 0>> /\ outcome = "ok"
  /\ fn["e1"] = <<Rd("r1"), Wr("r1", 1)>> /\ fn["e2"] = <<Rd("r1"), Rd("r1")>>
  /\ Between(log, <<"run", "e1">>, <<"prop", "r1">>, <<"end", "e1">>)
  /\ Count(log, <<"run", "e1">>) = 1 /\ Count(log, <<"mark", "e1", "r1">>) = 1
  /\ EdgeCount("e2", "r1") = 2 /\ Count(log, <<"mark", "e2", "r1">>) = 1
  /\ Count(log, <<"run", "e2">>) = 1

\* the positions in lg of the marks made by the walks of P's subscriber list
MarksOf(lg, P) == {j \in DOMAIN lg : lg[j][1] = "mark" /\ lg[j][3] = P}
\* the effects marked by the walks of P's subscriber list, in the order marked
QueuedOf(lg, P) ==
  LET f == SelectSeq(lg, LAMBDA ev : ev[1] = "mark" /\ ev[3] = P /\ ev[2] \in Effects)
  IN [i \in DOMAIN f |-> f[i][2]]
\* the runs after position n of lg of the effects in q, in the order run
RunsAfter(lg, n, q) ==
  LET f == SelectSeq(SubSeq(lg, n + 1, Len(lg)),
                     LAMBDA ev : ev[1] = "run" /\ ev[2] \in Range(q))
  IN [i \in DOMAIN f |-> f[i][2]]
LastOf(S) == IF S = {} THEN 0 ELSE CHOOSE j \in S : \A k \in S : k <= j

\* C25: in the propagate call that a write to ref P makes, a computed with
\* subscribers is recomputed as soon as its edge is marked, no effect
\* subscribed to P starts to run before the last edge of P's list is marked,
\* and the effects marked then run in the order in which they were marked.
WalkThenNotify ==
  [][ (op'[1] = "set" /\ op'[2] \in Refs /\ outcome = "ok" /\ outcome' = "ok") =>
        LET P == op'[2]
            last == LastOf(MarksOf(log', P))
        IN /\ \A j \in MarksOf(log', P) :
                (log'[j][2] \in Computeds /\ subs[log'[j][2]] # None)
                   => (j < Len(log') /\ log'[j + 1] = <<"get", log'[j][2]>>)
           /\ \A e \in Effects : \A i \in 1..last :
                InSubs(P, e) => log'[i] # <<"run", e>>
           /\ RunsAfter(log', last, QueuedOf(log', P)) = QueuedOf(log', P) ]_vars

\* activeSub in the innermost frame
TopSub(stack) == IF stack = <<>> THEN NoObj ELSE stack[Len(stack)].sub
Pop(stack) == SubSeq(stack, 1, Len(stack) - 1)
RECURSIVE Unwind(_, _)
\* the frames left when the run of e ends, normally or by an exception
Unwind(stack, e) ==
  IF stack = <<>> THEN stack
  ELSE IF stack[Len(stack)].of = e THEN Pop(stack) ELSE Unwind(Pop(stack), e)

RECURSIVE Attributed(_, _, _)
\* every link(dep, sub) call of lg is made for the sub of the innermost run or
\* recompute under way.  A frame holds whose run it is and the activeSub in it:
\* the run of a stopped effect leaves activeSub as it is.
Attributed(lg, i, stack) ==
  IF i > Len(lg) THEN stack = <<>>
  ELSE IF lg[i][1] = "run"
  THEN Attributed(lg, i + 1,
         Append(stack, [of |-> lg[i][2],
                        sub |-> IF active[lg[i][2]] THEN lg[i][2] ELSE TopSub(stack)]))
  ELSE IF lg[i][1] = "get"
  THEN Attributed(lg, i + 1, Append(stack, [of |-> lg[i][2], sub |-> lg[i][2]]))
  ELSE IF lg[i][1] = "end" THEN Attributed(lg, i + 1, Unwind(stack, lg[i][2]))
  ELSE IF lg[i][1] = "update" THEN Attributed(lg, i + 1, Unwind(stack, lg[i][2]))
  ELSE IF lg[i][1] = "link"
  THEN TopSub(stack) = lg[i][3] /\ Attributed(lg, i + 1, stack)
  ELSE Attributed(lg, i + 1, stack)

\* C26: every read links the producer to the innermost run or recompute under
\* way, also after a nested run or recompute has returned, and a call leaves
\* activeSub as it found it.
NestedAttribution ==
  [][ outcome' # "hang" => (Attributed(log', 1, <<>>) /\ activeSub' = activeSub) ]_vars
\* e1 read r1, its write to r2 ran e2, which read r2 and c2, and e1 then read c2
NestedAttributionWitness ==
  /\ op = <<"effect", "e1">> /\ outcome = "ok" /\ activeSub = NoObj
  /\ Between(log, <<"link", "r1", "e1">>, <<"run", "e2">>, <<"link", "r2", "e2">>)
  /\ Between(log, <<"link", "c2", "e2">>, <<"end", "e2">>, <<"link", "c2", "e1">>)

\* the body of e returns before its first read
ReadsNothing(e) == fn[e][1] = Guard(0)

\* C27: when an active effect that holds edges runs and reads nothing, its
\* dependency list is empty afterwards, each of its former edges is in no
\* subscriber list and is in the pool, and no write runs the effect from then on.
EarlyReturnReleasesAll ==
  [][ /\ \A e \in Effects :
           (op' = <<"runner", e>> /\ ReadsNothing(e) /\ active[e] /\ deps[e] # None
              /\ outcome = "ok")
           => /\ outcome' = "ok" /\ deps'[e] = None
              /\ \A l \in Range(DepList(e)) :
                   /\ l \in Range(PoolList)'
                   /\ \A d \in Deps : l \notin Range(SubList(d))'
      /\ \A e \in Effects :
           (op'[1] = "set" /\ ReadsNothing(e) /\ deps[e] = None) => ~Ran(e, log') ]_vars

\* the deps passed to link() for subscriber s in lg, in order
ReadSeq(s, lg) ==
  LET f == SelectSeq(lg, LAMBDA ev : ev[1] = "link" /\ ev[3] = s)
  IN [i \in DOMAIN f |-> f[i][2]]
\* the deps of the edges of s's dependency list, in order
DepSeq(s) == [i \in DOMAIN DepList(s) |-> links[DepList(s)[i]].dep]
PoolEvents(lg) == {i \in DOMAIN lg : lg[i][1] \in {"alloc", "pop", "push"}}

\* C28: a run of an active effect that reads the producers of its dependency
\* list, in the order of the list, allocates no edge, takes none from the pool
\* and returns none to it, and leaves its dependency list, every subscriber
\* list and every edge as they were.
ReuseFastPath ==
  [][ \A e \in Effects :
        (op' = <<"runner", e>> /\ active[e] /\ outcome = "ok" /\ ReadSeq(e, log') = DepSeq(e))
          => /\ outcome' = "ok" /\ PoolEvents(log') = {}
             /\ DepList(e)' = DepList(e)
             /\ \A d \in Deps : SubList(d)' = SubList(d)
             /\ links' = links /\ linkPool' = linkPool /\ nlinks' = nlinks ]_vars
\* e1 ran again and read r1 and r2 as before, while the pool held an edge
ReuseFastPathWitness ==
  /\ op = <<"runner", "e1">> /\ outcome = "ok" /\ active["e1"]
  /\ ReadSeq("e1", log) = <<"r1", "r2">> /\ DepSeq("e1") = <<"r1", "r2">>
  /\ linkPool # None /\ subs["r1"] # deps["e1"]

\* what the getter of c returns for the values its producers hold
GetterValue(c, val) == Combine(getter[c].f, [i \in DOMAIN getter[c].reads |-> val[getter[c].reads[i]]])

\* C29: a write to ref r marks a clean computed that reads r and has no
\* subscribers dirty and does not run its getter; the next read of the
\* computed's value runs the getter exactly once and returns its result.
LazyWithoutSubscribers ==
  [][ \A c \in Computeds :
        /\ (/\ op'[1] = "set" /\ op'[2] \in Refs /\ op'[3] # value[op'[2]] /\ outcome = "ok"
             /\ InSubs(op'[2], c) /\ ~dirty[c] /\ subs[c] = None /\ subs'[c] = None)
            => /\ dirty'[c] /\ value'[c] = value[c]
               /\ Count(log', <<"get", c>>) = 0
        /\ (op' = <<"get", c>> /\ dirty[c] /\ subs[c] = None /\ outcome = "ok")
            => /\ ~dirty'[c]
               /\ Count(log', <<"get", c>>) = 1
               /\ value'[c] = GetterValue(c, value') ]_vars

\* the subscribers of the edges of p's subscriber list, in order
SubSeq1(p) == [i \in DOMAIN SubList(p) |-> links[SubList(p)[i]].sub]
\* r -> c1 -> c2 -> e and nothing else hangs on r, c1 or c2
IsChain(r, e) ==
  /\ SubSeq1(r) = <<"c1">> /\ SubSeq1("c1") = <<"c2">> /\ SubSeq1("c2") = <<e>>
  /\ DepSeq(e) = <<"c2">> /\ DepSeq("c2") = <<"c1">> /\ DepSeq("c1") = getter["c1"].reads
  /\ active[e] /\ ~dirty["c1"] /\ ~dirty["c2"]
\* the values of c1 and c2 for the values val of the refs
ChainValue1(val) == GetterValue("c1", val)
ChainValue2(val) == GetterValue("c2", [val EXCEPT !["c1"] = ChainValue1(val)])

\* C30: in a chain r -> c1 -> c2 -> e, a write to r that changes c1 and c2
\* runs the getter of c1 once, the getter of c2 once and e once, and e runs
\* after c2 holds the value computed from the new value of r.
ChainPropagation ==
  [][ \A r \in Refs, e \in Effects :
        LET new == [value EXCEPT ![r] = op'[3]]
        IN (/\ op'[1] = "set" /\ op'[2] = r /\ outcome = "ok" /\ IsChain(r, e)
            /\ ChainValue1(new) # value["c1"] /\ ChainValue2(new) # value["c2"])
           => /\ outcome' = "ok"
              /\ Count(log', <<"get", "c1">>) = 1 /\ Count(log', <<"get", "c2">>) = 1
              /\ Count(log', <<"run", e>>) = 1
              /\ value'["c1"] = ChainValue1(new) /\ value'["c2"] = ChainValue2(new)
              /\ Between(log', <<"update", "c2", value["c2"], ChainValue2(new)>>,
                          <<"run", e>>, <<"read", "c2">>) ]_vars
\* the write r1.value = 1 went down the chain to e1
ChainPropagationWitness ==
  /\ op = <<"set", "r1", 1>> /\ outcome = "ok" /\ IsChain("r1", "e1")
  /\ value["c1"] = 1 /\ value["c2"] = 1
  /\ Between(log, <<"update", "c1", 0, 1>>, <<"update", "c2", 0, 1>>, <<"run", "e1">>)

\* C31: a traverse call returns on every object graph, cyclic or not, and
\* enters the for loop of each object at most once.
TraverseTerminates ==
  op[1] = "traverse" => (trav.halt = "none" /\ NoRepeat(trav.visits))
\* an unbounded traversal of a graph with the cycle o1 -> o2 -> o3 -> o1
TraverseTerminatesWitness ==
  /\ op = <<"traverse", Infinity>> /\ trav.halt = "none"
  /\ graph[<<Root, "k1">>] = Raw(2) /\ graph[<<Raw(2), "k1">>] = Raw(3)
  /\ graph[<<Raw(3), "k1">>] = Root /\ graph[<<Root, "k2">>] = Raw(3)
  /\ trav.visits = <<Root, Raw(2), Raw(3)>>

RECURSIVE Within(_)
\* the objects that a path of at most n properties reaches from the source value
Within(n) ==
  IF n = 0 THEN {Root}
  ELSE Within(n - 1) \cup ({graph[sl] : sl \in {x \in Slots : x[1] \in Within(n - 1)}} \ {Prim})

\* C32: a traversal with deep = n reads exactly the properties at nesting
\* level n or less below the source value: those of the objects that a path of
\* fewer than n properties reaches.
DeepReadsToLevel ==
  (op[1] = "traverse" /\ op[2] # Infinity)
     => Range(trav.reads) = {sl \in Slots : sl[1] \in Within(op[2] - 1)}

\* dep d is the producer written, or a computed that an earlier update of lg changed
Changed(lg, j, d, P) ==
  \/ d = P
  \/ \E i \in 1..(j - 1) : lg[i][1] = "update" /\ lg[i][2] = d /\ lg[i][3] # lg[i][4]
\* consumer s holds an edge to d when position j of lg is reached
HoldsEdge(lg, j, s, d) ==
  HasEdge(s, d) \/ \E i \in 1..(j - 1) : lg[i] = <<"link", d, s>>

\* C33: a value-changing write to ref P marks only consumers that hold an edge
\* to the producer whose list is walked, which is P or a computed that the
\* write changed, and it runs only effects that it marked.
NoSpuriousNotification ==
  [][ (op'[1] = "set" /\ op'[2] \in Refs /\ op'[3] # value[op'[2]] /\ outcome = "ok") =>
        \A j \in DOMAIN log' :
          /\ log'[j][1] = "mark" =>
               /\ Changed(log', j, log'[j][3], op'[2])
               /\ HoldsEdge(log', j, log'[j][2], log'[j][3])
          /\ log'[j][1] = "run" =>
               \E i \in 1..(j - 1) : log'[i][1] = "mark" /\ log'[i][2] = log'[j][2] ]_vars

\* C34: between calls, for every producer P: subs is undefined exactly when
\* subsTail is; following nextSub from subs ends, without repeating an edge, at
\* subsTail; subs.prevSub and subsTail.nextSub are undefined; and for edges a,
\* b of the list a.nextSub = b exactly when b.prevSub = a.
SubsListWellFormed ==
  Quiet =>
    \A p \in Deps :
      /\ (subs[p] = None) <=> (subsTail[p] = None)
      /\ subs[p] # None =>
           /\ Len(SubList(p)) <= MaxLinks /\ NoRepeat(SubList(p))
           /\ SubList(p)[Len(SubList(p))] = subsTail[p]
           /\ links[subs[p]].prevSub = None
           /\ links[subsTail[p]].nextSub = None
           /\ \A a, b \in Range(SubList(p)) :
                (links[a].nextSub = b) <=> (links[b].prevSub = a)

ReturnedAt(lg, j, c) ==
  IF \E i \in Updates(lg, c) : i < j
  THEN lg[CHOOSE i \in Updates(lg, c) : i < j /\ \A k \in Updates(lg, c) : k < j => k <= i][4]
  ELSE value[c]
\* the getter of c evaluated on the values val of the refs, through the
\* getters of the computeds it reads
TrueValue(c, val) ==
  GetterValue(c, [d \in Deps |-> IF d \in Computeds THEN GetterValue(d, val) ELSE val[d]])

\* C36: every read of a computed that the body of an effect makes in a run
\* caused by a write to a ref returns the value of the computed's getter on
\* the values that the refs hold after the write.
GlitchFreedom ==
  [][ (op'[1] = "set" /\ op'[2] \in Refs /\ outcome = "ok") =>
        \A j \in DOMAIN log' :
          ( /\ j > 1 /\ log'[j][1] = "read" /\ log'[j - 1][1] = "link"
            /\ log'[j - 1][2] = log'[j][2] /\ log'[j - 1][3] \in Effects )
          => ReturnedAt(log', j, log'[j][2]) = TrueValue(log'[j][2], value') ]_vars

\* C37: a value-changing write to ref P that returns marks dirty, during the
\* call, every consumer that holds an edge to P and is neither tracking nor
\* dirty when the write starts.
WalkCompleteness ==
  [][ \A s \in Subs, r \in Refs :
        ( /\ IsWrite(op', r) /\ outcome = "ok" /\ outcome' = "ok"
          /\ HasEdge(s, r) /\ ~tracking[s] /\ ~dirty[s] )
        => \E i \in DOMAIN log' : log'[i][1] = "mark" /\ log'[i][2] = s ]_vars

\* the last call was a write that an error of an effect's body cut short, and
\* it left e marked dirty without running it
LeftDirty(e) ==
  /\ op[1] = "set" /\ outcome = "exc"
  /\ \E i \in DOMAIN log : log[i][1] = "throw" /\ log[i][2] \in Effects
  /\ \E i \in DOMAIN log : log[i][1] = "mark" /\ log[i][2] = e
  /\ ~Ran(e, log) /\ dirty[e] /\ ~tracking[e] /\ active[e]

\* C38: an effect that was marked dirty and queued by a propagate call in
\* which the run of another queued effect threw is run by the next
\* value-changing write to a ref that it reads.
DirtyAfterErrorIsNotified ==
  [][ \A e \in Effects, r \in Refs :
        (LeftDirty(e) /\ IsWrite(op', r) /\ HasEdge(e, r) /\ InSubs(r, e))
        => Ran(e, log') ]_vars

\* the body of e called stop() on e in the last call
SelfStopped(e, lg) == \E i \in DOMAIN lg : lg[i] = <<"selfstop", e>>

\* C39: after a call in which the body of an active effect called stop() on
\* the effect and returned, the effect holds no edge and is in no subscriber
\* list, and no write runs the body of an effect that is not active.
SelfStopReleasesAll ==
  [][ \A e \in Effects :
        /\ (active[e] /\ SelfStopped(e, log') /\ outcome' = "ok")
             => /\ deps'[e] = None
                /\ \A l \in 1..nlinks' : links'[l].sub # e
                /\ \A p \in Deps : ~InSubs(p, e)'
        /\ (~active[e] /\ op'[1] = "set") => ~Ran(e, log') ]_vars

RECURSIVE NoReentry(_, _, _)
\* no body is entered while the same consumer is executing; running is the
\* set of consumers whose body has started and not ended at position i of lg
NoReentry(lg, i, running) ==
  IF i > Len(lg) THEN TRUE
  ELSE IF lg[i][1] = "run"
  THEN lg[i][2] \notin running /\ NoReentry(lg, i + 1, running \cup {lg[i][2]})
  ELSE IF lg[i][1] = "end"
  THEN NoReentry(lg, i + 1, running \ {lg[i][2]})
  ELSE NoReentry(lg, i + 1, running)
\* the number of runs under way after position i of lg
Nesting(lg, i) ==
  Cardinality({j \in 1..i : lg[j][1] = "run"}) - Cardinality({j \in 1..i : lg[j][1] = "end"})

\* C40: a write to a ref returns or throws, it never hangs; during the write
\* no effect's body is entered while that effect is executing, and the
\* number of runs under way never exceeds the number of effects created.
WriteTerminates ==
  [][ (op'[1] = "set" /\ op'[2] \in Refs /\ outcome = "ok") =>
        /\ outcome' \in {"ok", "exc"}
        /\ NoReentry(log', 1, {})
        /\ \A i \in DOMAIN log' :
             Nesting(log', i) <= Cardinality({e \in Effects : fn'[e] # NoBody}) ]_vars

====
